---- MODULE Spec2Model ----
(***************************************************************************)
(* Market dashboard (BTC / gold proxy): the data fetchers of               *)
(* services/marketService.ts, the refresh cycle of App.loadAllData and the *)
(* commentary panel AIAnalysisPanel.handleAnalyze.                         *)
(*                                                                         *)
(* The repository holds two builds of the same program:                    *)
(*   "modular": src/App.tsx (App, AIAnalysisPanel) with the service file   *)
(*              src/unnamed/part_001;                                      *)
(*   "merged" : src/unnamed/part_000, the single-file build.               *)
(* The fetchers are the same in both; loadAllData and the commentary path  *)
(* differ and are modelled per build.                                      *)
(*                                                                         *)
(* Numbers: JavaScript numbers are modelled as integers; the one quotient  *)
(* the code computes (rangePercent) is kept as an exact fraction.  Funding *)
(* rates are counted in units of 0.0001.                                   *)
(***************************************************************************)
EXTENDS Integers, Sequences, FiniteSets, TLC

VARIABLES
    build,        \* which build of the program runs
    apiKey,       \* process.env.API_KEY ("" when not configured)
    btcData, goldData, fundingData, btcHighLow, goldHighLow, chartData,
    lastUpdated, loading, timeFrame, chartMode,       \* App's useState cells
    mounted,      \* App's effect has run: first load started, interval set
    cycles,       \* the loadAllData calls started so far, in order
    now,          \* the clock, in steps of 30000 ms / Period
    timerArmedAt, \* when setInterval was called or last fired
    timers,       \* the intervals set and not cleared, oldest first: the
                  \* timeFrame of the loadAllData each one calls
    analysis, isAnalyzing,                            \* AIAnalysisPanel's cells
    aiCall,       \* the generateContent call in flight, if any
    aiCalls,      \* calls issued to the generative-text service so far
    fn, args, ret, \* a fetcher applied on its own: name, responses, result
    reqs          \* the requests that fetcher issued

appVars == <<build, apiKey, btcData, goldData, fundingData, btcHighLow,
             goldHighLow, chartData, lastUpdated, loading, timeFrame,
             chartMode, mounted, cycles, now, timerArmedAt, timers>>
aiVars == <<analysis, isAnalyzing, aiCall, aiCalls>>
fnVars == <<fn, args, ret, reqs>>
vars == <<appVars, aiVars, fnVars>>

----------------------------------------------------------------------------
(* Bounds of the model *)

MaxLen == 2      \* candles in a chart series drawn as input
MaxStamp == 2    \* distinct candle open times drawn as input
MaxCycles == 2   \* loadAllData calls per run
MaxLoads == 4    \* loadAllData calls per run when no request is answered
Period == 2      \* clock steps in the 30000 ms of the interval
MaxFaults == 2   \* requests of one cycle that do not succeed (SpecCycle)
MaxRunFaults == 1  \* chart requests of a run that do not succeed (Spec)
MaxAICalls == 2  \* commentary requests per run

----------------------------------------------------------------------------
(* JSON values and HTTP responses *)

\* A JSON value as safeFetch returns it: null, an array or a plain object.
JNull == [t |-> "null", v |-> <<>>]
JArray(s) == [t |-> "array", v |-> s]
JObject(fields) == [t |-> "object", v |-> fields]
EmptyObject == JObject(<< >>)

\* What a fetch() can come to: a 2xx response with a JSON body, a transport
\* error (fetch rejects), or a response whose status is not 2xx.
RespOk(body) == [kind |-> "ok", body |-> body]
RespNetErr == [kind |-> "neterr", body |-> JNull]
RespHttp == [kind |-> "http", body |-> JNull]
Failures == {RespNetErr, RespHttp}

\* safeFetch: the parsed body of a 2xx response, null on any failure.
SafeFetch(resp) == IF resp.kind = "ok" THEN resp.body ELSE JNull

\* JavaScript truthiness of a JSON value / of a number.
Truthy(j) == j.t # "null"

\* NaN, the number parseFloat returns for what is not a decimal string; no
\* string of the model parses to this integer.
NaN == -1
TruthyNum(n) == n # 0 /\ n # NaN

\* data.name: undefined when the object has no such property.
Field(data, name) ==
    IF data.v = << >> THEN "undefined" ELSE data.v[name]

\* The decimal strings the provider sends, and parseFloat on them.
DecStrs == {"0.00", "50", "100", "110"}
parseFloat(s) ==
    CASE s = "0.00" -> 0
      [] s = "50" -> 50
      [] s = "100" -> 100
      [] s = "110" -> 110
      [] OTHER -> NaN

\* A kline is the array [openTime, open, high, low, close, ...]; At is the
\* JavaScript (0-based) index into it.
Kline(ts, o, h, l, c) == <<ts, o, h, l, c>>
At(k, i) == k[i + 1]

RECURSIVE Gcd(_, _)
Gcd(a, b) == IF b = 0 THEN a ELSE Gcd(b, a % b)
Abs(n) == IF n < 0 THEN -n ELSE n

\* The exact quotient n / d (d > 0) in lowest terms.
Frac(n, d) ==
    LET g == Gcd(Abs(n), d)
    IN [num |-> n \div g, den |-> d \div g]
Zero == [num |-> 0, den |-> 1]

----------------------------------------------------------------------------
(* fetchBTCPrice, fetchGoldPrice, fetchFundingRates *)

BtcFallbackPrice == 95000
GoldFallbackPrice == 2650
FundingFallback == 100     \* 0.0100

Fulfilled(v) == [st |-> "fulfilled", val |-> v]
Rejected == [st |-> "rejected", val |-> <<>>]
Pending == [st |-> "pending", val |-> <<>>]

fetchBTCPrice(resp) ==
    LET data == SafeFetch(resp)
    IN IF ~Truthy(data)
       THEN Fulfilled([price |-> BtcFallbackPrice, changePercent |-> 0])
       ELSE Fulfilled([price |-> parseFloat(Field(data, "lastPrice")),
                       changePercent |-> parseFloat(Field(data, "priceChangePercent")),
                       change24h |-> parseFloat(Field(data, "priceChange"))])

\* The gold fallback written with the BTC price.
fetchGoldPriceBtcFallback(resp) ==
    LET data == SafeFetch(resp)
    IN IF ~Truthy(data)
       THEN Fulfilled([price |-> BtcFallbackPrice, changePercent |-> 0])
       ELSE Fulfilled([price |-> parseFloat(Field(data, "lastPrice")),
                       changePercent |-> parseFloat(Field(data, "priceChangePercent"))])
fetchGoldPrice(resp) ==
    LET data == SafeFetch(resp)
    IN IF ~Truthy(data)
       THEN Fulfilled([price |-> GoldFallbackPrice, changePercent |-> 0])
       ELSE Fulfilled([price |-> parseFloat(Field(data, "lastPrice")),
                       changePercent |-> parseFloat(Field(data, "priceChangePercent"))])

\* bybit is the value of 0.01 + Math.random() * 0.005 in this call.
fetchFundingRates(resp, bybit) ==
    LET binanceData == SafeFetch(resp)
    IN Fulfilled(<< [exchange |-> "Binance",
                     rate |-> IF Truthy(binanceData)
                              THEN parseFloat(Field(binanceData, "lastFundingRate"))
                              ELSE FundingFallback],
                    [exchange |-> "Bybit", rate |-> bybit] >>)

----------------------------------------------------------------------------
(* fetchHighLow *)

\* The four buckets, in the order of the code ('1 Gio' stands for '1 Giờ').
definitions ==
    << [label |-> "1 Gio", interval |-> "1h", limit |-> 2],
       [label |-> "4 Gio", interval |-> "4h", limit |-> 2],
       [label |-> "24 Gio", interval |-> "1d", limit |-> 1],
       [label |-> "7 Ngay", interval |-> "1w", limit |-> 1] >>

\* data.length === 0; the length of a plain object is undefined.
LengthIsZero(data) == data.t = "array" /\ Len(data.v) = 0

\* candle[2] on data[data.length - 1]: a plain object has no such element and
\* the read of candle[2] throws a TypeError.
BucketThrows(resp) ==
    LET data == SafeFetch(resp)
    IN Truthy(data) /\ ~LengthIsZero(data) /\ data.t # "array"

\* The quotient left unguarded: a zero denominator stands for the division by
\* zero.
rangeOfUnguarded(high, low) ==
    IF low # 0 THEN Frac((high - low) * 100, low)
    ELSE [num |-> (high - low) * 100, den |-> 0]
\* const range = low > 0 ? ((high - low) / low) * 100 : 0
rangeOf(high, low) ==
    IF low > 0 THEN Frac((high - low) * 100, low) ELSE Zero

BucketEntryFirstLow(def, resp) ==
    LET data == SafeFetch(resp)
    IN IF ~Truthy(data) \/ LengthIsZero(data)
       THEN [timeframe |-> def.label, high |-> 0, low |-> 0,
             rangePercent |-> Zero]
       ELSE LET candle == data.v[Len(data.v)]
                high == parseFloat(At(candle, 2))
                low == parseFloat(At(data.v[1], 3))
            IN [timeframe |-> def.label, high |-> high, low |-> low,
                rangePercent |-> rangeOf(high, low)]
BucketEntry(def, resp) ==
    LET data == SafeFetch(resp)
    IN IF ~Truthy(data) \/ LengthIsZero(data)
       THEN [timeframe |-> def.label, high |-> 0, low |-> 0,
             rangePercent |-> Zero]
       ELSE LET candle == data.v[Len(data.v)]
                high == parseFloat(At(candle, 2))
                low == parseFloat(At(candle, 3))
            IN [timeframe |-> def.label, high |-> high, low |-> low,
                rangePercent |-> rangeOf(high, low)]

\* The klines request of each bucket.
HighLowRequests(symbol) ==
    [i \in DOMAIN definitions |->
        [symbol |-> symbol, interval |-> definitions[i].interval,
         limit |-> definitions[i].limit]]

\* resps[i] answers the klines request of definitions[i].  Promise.all over
\* the buckets rejects when a bucket's callback throws.
fetchHighLow(resps) ==
    IF \E i \in DOMAIN definitions : BucketThrows(resps[i])
    THEN Rejected
    ELSE Fulfilled([i \in DOMAIN definitions |->
                        BucketEntry(definitions[i], resps[i])])

----------------------------------------------------------------------------
(* fetchChartData *)

TimeFrames == {"1h", "4h", "24h", "7d"}

\* The switch with the seven-day pair as its default.
IntervalLimitWeekDefault(tf) ==
    CASE tf = "1h" -> [interval |-> "1m", limit |-> 60]
      [] tf = "4h" -> [interval |-> "5m", limit |-> 48]
      [] tf = "24h" -> [interval |-> "15m", limit |-> 96]
      [] OTHER -> [interval |-> "2h", limit |-> 84]

\* The switch on timeFrame: the candle interval and count requested.
IntervalLimit(tf) ==
    CASE tf = "1h" -> [interval |-> "1m", limit |-> 60]
      [] tf = "4h" -> [interval |-> "5m", limit |-> 48]
      [] tf = "24h" -> [interval |-> "15m", limit |-> 96]
      [] tf = "7d" -> [interval |-> "2h", limit |-> 84]
      [] OTHER -> [interval |-> "1h", limit |-> 168]

\* The two klines requests of one call, BTC first: Promise.all over
\* safeFetch of .../klines?symbol=...&interval=...&limit=...
ChartRequests(tf) ==
    << [symbol |-> "BTCUSDT", interval |-> IntervalLimit(tf).interval,
        limit |-> IntervalLimit(tf).limit],
       [symbol |-> "PAXGUSDT", interval |-> IntervalLimit(tf).interval,
        limit |-> IntervalLimit(tf).limit] >>

XauFallback == 2650

\* goldMap: timestamp -> parsed close; a later candle of the same timestamp
\* replaces an earlier one.
GoldMap(goldKlines) ==
    IF ~Truthy(goldKlines) THEN << >>
    ELSE LET s == goldKlines.v
             keys == {At(s[i], 0) : i \in DOMAIN s}
             last(t) == CHOOSE i \in DOMAIN s :
                            /\ At(s[i], 0) = t
                            /\ \A j \in DOMAIN s : At(s[j], 0) = t => j <= i
         IN [t \in keys |-> parseFloat(At(s[last(t)], 4))]

\* goldMap.get(timestamp) || 2650
XauClose(goldMap, timestamp) ==
    IF timestamp \in DOMAIN goldMap /\ TruthyNum(goldMap[timestamp])
    THEN goldMap[timestamp]
    ELSE XauFallback

\* toLocaleDateString for the 7d view, toLocaleTimeString otherwise.
TimeLabel(tf, timestamp) ==
    [fmt |-> IF tf = "7d" THEN "date" ELSE "time", of |-> timestamp]

\* btcData.length > 0; the length of a plain object is undefined.
NonEmpty(btcSeries) == btcSeries.t = "array" /\ Len(btcSeries.v) > 0

BaseDataLonger(btcSeries, goldKlines) ==
    IF Truthy(goldKlines) /\ goldKlines.t = "array"
           /\ (~NonEmpty(btcSeries) \/ Len(goldKlines.v) > Len(btcSeries.v))
    THEN goldKlines.v
    ELSE IF NonEmpty(btcSeries) THEN btcSeries.v ELSE << >>
BaseDataBtcOnly(btcSeries, goldKlines) ==
    IF btcSeries.t = "array" THEN btcSeries.v ELSE << >>
\* baseData = btcData.length > 0 ? btcData : (goldKlines || [])
BaseData(btcSeries, goldKlines) ==
    IF NonEmpty(btcSeries) THEN btcSeries.v
    ELSE IF Truthy(goldKlines) THEN goldKlines.v ELSE << >>

fetchChartData(tf, btcResp, goldResp) ==
    LET btcKlines == SafeFetch(btcResp)
        goldKlines == SafeFetch(goldResp)
        \* btcData = btcKlines || []
        btcSeries == IF Truthy(btcKlines) THEN btcKlines ELSE JArray(<< >>)
        goldMap == GoldMap(goldKlines)
        baseData == BaseData(btcSeries, goldKlines)
        point(k) == [time |-> TimeLabel(tf, At(k, 0)),
                     timestamp |-> At(k, 0),
                     btc |-> IF NonEmpty(btcSeries)
                             THEN parseFloat(At(k, 4)) ELSE 0,
                     xau |-> XauClose(goldMap, At(k, 0))]
    IN IF ~Truthy(btcKlines) /\ ~Truthy(goldKlines) THEN Fulfilled(<< >>)
       \* goldKlines.forEach is not a function on a plain object
       ELSE IF goldKlines.t = "object" THEN Rejected
       ELSE Fulfilled([i \in DOMAIN baseData |-> point(baseData[i])])

----------------------------------------------------------------------------
(* The state after construction: App's and AIAnalysisPanel's useState     *)
(* initial values, nothing mounted, no request issued.                     *)

Builds == {"modular", "merged"}
ApiKeys == {"", "key"}
ChartModes == {"combined", "btc", "gold"}

InitApp ==
    /\ build \in Builds
    /\ btcData = [price |-> 0, changePercent |-> 0]
    /\ goldData = [price |-> 0, changePercent |-> 0]
    /\ chartData = << >>
    /\ fundingData = << >>
    /\ btcHighLow = << >>
    /\ goldHighLow = << >>
    /\ timeFrame = "1h"
    /\ chartMode = "combined"
    /\ loading = TRUE
    /\ lastUpdated = 0
    /\ mounted = FALSE
    /\ cycles = << >>
    /\ now = 0
    /\ timerArmedAt = 0
    /\ timers = << >>

InitAI ==
    /\ analysis = ""
    /\ isAnalyzing = FALSE
    /\ aiCall = [st |-> "none", mode |-> "combined", since |-> 0,
                 prompt |-> [template |-> "none", prices |-> << >>,
                             changes |-> << >>, funding |-> << >>,
                             ranges |-> << >>]]
    /\ aiCalls = 0

NoFn ==
    /\ fn = "none"
    /\ args = << >>
    /\ ret = Pending
    /\ reqs = << >>

----------------------------------------------------------------------------
(* The refresh cycle: App.loadAllData and the events that start it *)

\* The promises loadAllData hands to Promise.all.
SubFetches ==
    IF build = "merged"
    THEN {"btc", "gold", "funding", "btcHL", "goldHL", "chart"}
    ELSE {"btc", "gold", "funding", "btcHL", "chart"}

\* Candles of a high/low bucket: the latest one, of (high, low) = p, and the
\* one before it.
EarlierKline == Kline(1, "50", "100", "50", "100")
LatestKline(p) == Kline(2, p[2], p[1], p[2], p[1])

\* The bodies the provider sends when a request succeeds.
BtcTicker == RespOk(JObject([lastPrice |-> "110", priceChangePercent |-> "50",
                             priceChange |-> "100"]))
GoldTicker == RespOk(JObject([lastPrice |-> "50", priceChangePercent |-> "0.00",
                              priceChange |-> "0.00"]))
PremiumIndex == RespOk(JObject([lastFundingRate |-> "50"]))
BucketKlines(def) ==
    RespOk(JArray(IF def.limit >= 2
                  THEN <<EarlierKline, LatestKline(<<"110", "100">>)>>
                  ELSE <<LatestKline(<<"110", "50">>)>>))
BtcKlines == RespOk(JArray(<<Kline(1, "100", "110", "50", "100"),
                             Kline(2, "100", "110", "50", "110")>>))
GoldKlines == RespOk(JArray(<<Kline(1, "100", "110", "50", "50")>>))

\* Values of 0.01 + Math.random() * 0.005, in units of 0.0001: the ends of
\* the range, and the one value drawn in the runs of several cycles.
BybitRates == {100, 149}
BybitRatesOfRun == {125}

\* A request that did not bring the body its endpoint documents.
IsFault(resp) == resp.kind # "ok" \/ resp.body = EmptyObject
Fault(resp) == IF IsFault(resp) THEN 1 ELSE 0
FaultCount(rs) == Cardinality({i \in DOMAIN rs : IsFault(rs[i])})
RECURSIVE RunFaults(_)
RunFaults(cs) ==
    IF cs = << >> THEN 0 ELSE Head(cs).faults + RunFaults(Tail(cs))

\* The answers a request can get, good being the one its endpoint documents.
\* A request can also be answered 2xx with a JSON object that is not the
\* documented one: no ticker field in it, no candle array.
\* n is the number of requests that may still go wrong.
TickerAnswers(good, n) ==
    {good} \cup (IF n > 0 THEN Failures \cup {RespOk(EmptyObject)} ELSE {})
KlinesAnswers(good, n) ==
    {good} \cup (IF n > 0 THEN Failures \cup {RespOk(EmptyObject)} ELSE {})

\* What safeFetch made of an answer: the documented body, null, or the JSON
\* object sent in place of a candle array.
Got(resp) ==
    LET data == SafeFetch(resp)
    IN IF ~Truthy(data) THEN "null"
       ELSE IF data = EmptyObject THEN "object" ELSE "body"

\* Promise.all: rejected once one promise is rejected, fulfilled once all are.
PromiseAll(res) ==
    IF \E f \in DOMAIN res : res[f].st = "rejected" THEN "rejected"
    ELSE IF \A f \in DOMAIN res : res[f].st = "fulfilled" THEN "fulfilled"
    ELSE "pending"

\* loadAllData up to its await: setLoading(true) and the batch of fetchers.
\* cap bounds the calls of a run; by is what called, at is the time of the
\* call.
LoadAllData(tf, by, at, cap) ==
    /\ Len(cycles) < cap
    /\ cycles' = Append(cycles, [tf |-> tf, by |-> by, at |-> at,
                                 res |-> [f \in SubFetches |-> Pending],
                                 data |-> [f \in SubFetches |-> << >>],
                                 faults |-> 0])
    /\ loading' = TRUE

\* A fetcher of cycle c that has not settled yet.
Awaited(c, f) == f \in DOMAIN cycles[c].res /\ cycles[c].res[f].st = "pending"

\* loadAllData without its finally: a rejected batch leaves loading set.
SettleNoFinally(c, f, rs, result, budget) ==
    LET cyc == cycles[c]
        res2 == [cyc.res EXCEPT ![f] = result]
        was == PromiseAll(cyc.res)
        after == PromiseAll(res2)
    IN /\ Awaited(c, f)
       /\ FaultCount(rs) = 0 \/ RunFaults(cycles) + FaultCount(rs) <= budget
       /\ cycles' = [cycles EXCEPT
                        ![c].res = res2,
                        ![c].data[f] = [i \in DOMAIN rs |-> Got(rs[i])],
                        ![c].faults = @ + FaultCount(rs)]
       /\ IF was = "pending" /\ after = "fulfilled"
          THEN /\ btcData' = res2["btc"].val
               /\ goldData' = res2["gold"].val
               /\ fundingData' = res2["funding"].val
               /\ btcHighLow' = res2["btcHL"].val
               /\ goldHighLow' = IF build = "merged" THEN res2["goldHL"].val
                                 ELSE goldHighLow
               /\ chartData' = res2["chart"].val
               /\ lastUpdated' = c
               /\ loading' = FALSE
          ELSE /\ loading' = loading
               /\ UNCHANGED <<btcData, goldData, fundingData, btcHighLow,
                              goldHighLow, chartData, lastUpdated>>
       /\ UNCHANGED <<build, apiKey, timeFrame, chartMode, mounted, now,
                      timerArmedAt, timers, aiVars, fnVars>>
\* loadAllData guarded by a request token: only the latest call writes.
SettleLatestOnly(c, f, rs, result, budget) ==
    LET cyc == cycles[c]
        res2 == [cyc.res EXCEPT ![f] = result]
        was == PromiseAll(cyc.res)
        after == PromiseAll(res2)
    IN /\ Awaited(c, f)
       /\ FaultCount(rs) = 0 \/ RunFaults(cycles) + FaultCount(rs) <= budget
       /\ cycles' = [cycles EXCEPT
                        ![c].res = res2,
                        ![c].data[f] = [i \in DOMAIN rs |-> Got(rs[i])],
                        ![c].faults = @ + FaultCount(rs)]
       /\ IF was = "pending" /\ after = "fulfilled" /\ c = Len(cycles)
          THEN /\ btcData' = res2["btc"].val
               /\ goldData' = res2["gold"].val
               /\ fundingData' = res2["funding"].val
               /\ btcHighLow' = res2["btcHL"].val
               /\ goldHighLow' = IF build = "merged" THEN res2["goldHL"].val
                                 ELSE goldHighLow
               /\ chartData' = res2["chart"].val
               /\ lastUpdated' = c
               /\ loading' = FALSE
          ELSE /\ loading' = IF was = "pending" /\ after # "pending"
                             THEN FALSE ELSE loading
               /\ UNCHANGED <<btcData, goldData, fundingData, btcHighLow,
                              goldHighLow, chartData, lastUpdated>>
       /\ UNCHANGED <<build, apiKey, timeFrame, chartMode, mounted, now,
                      timerArmedAt, timers, aiVars, fnVars>>
\* loadAllData writing each result as it arrives: the BTC ticker at once.
SettlePartial(c, f, rs, result, budget) ==
    LET cyc == cycles[c]
        res2 == [cyc.res EXCEPT ![f] = result]
        was == PromiseAll(cyc.res)
        after == PromiseAll(res2)
    IN /\ Awaited(c, f)
       /\ FaultCount(rs) = 0 \/ RunFaults(cycles) + FaultCount(rs) <= budget
       /\ cycles' = [cycles EXCEPT
                        ![c].res = res2,
                        ![c].data[f] = [i \in DOMAIN rs |-> Got(rs[i])],
                        ![c].faults = @ + FaultCount(rs)]
       /\ IF was = "pending" /\ after = "fulfilled"
          THEN /\ btcData' = res2["btc"].val
               /\ goldData' = res2["gold"].val
               /\ fundingData' = res2["funding"].val
               /\ btcHighLow' = res2["btcHL"].val
               /\ goldHighLow' = IF build = "merged" THEN res2["goldHL"].val
                                 ELSE goldHighLow
               /\ chartData' = res2["chart"].val
               /\ lastUpdated' = c
               /\ loading' = FALSE
          ELSE /\ loading' = IF was = "pending" /\ after = "rejected"
                             THEN FALSE ELSE loading
               /\ btcData' = IF f = "btc" THEN result.val ELSE btcData
               /\ UNCHANGED <<goldData, fundingData, btcHighLow,
                              goldHighLow, chartData, lastUpdated>>
       /\ UNCHANGED <<build, apiKey, timeFrame, chartMode, mounted, now,
                      timerArmedAt, timers, aiVars, fnVars>>
\* loadAllData with a catch that empties the chart.
SettleCatchClears(c, f, rs, result, budget) ==
    LET cyc == cycles[c]
        res2 == [cyc.res EXCEPT ![f] = result]
        was == PromiseAll(cyc.res)
        after == PromiseAll(res2)
    IN /\ Awaited(c, f)
       /\ FaultCount(rs) = 0 \/ RunFaults(cycles) + FaultCount(rs) <= budget
       /\ cycles' = [cycles EXCEPT
                        ![c].res = res2,
                        ![c].data[f] = [i \in DOMAIN rs |-> Got(rs[i])],
                        ![c].faults = @ + FaultCount(rs)]
       /\ IF was = "pending" /\ after = "fulfilled"
          THEN /\ btcData' = res2["btc"].val
               /\ goldData' = res2["gold"].val
               /\ fundingData' = res2["funding"].val
               /\ btcHighLow' = res2["btcHL"].val
               /\ goldHighLow' = IF build = "merged" THEN res2["goldHL"].val
                                 ELSE goldHighLow
               /\ chartData' = res2["chart"].val
               /\ lastUpdated' = c
               /\ loading' = FALSE
          ELSE /\ loading' = IF was = "pending" /\ after = "rejected"
                             THEN FALSE ELSE loading
               /\ chartData' = IF was = "pending" /\ after = "rejected"
                               THEN << >> ELSE chartData
               /\ UNCHANGED <<btcData, goldData, fundingData, btcHighLow,
                              goldHighLow, lastUpdated>>
       /\ UNCHANGED <<build, apiKey, timeFrame, chartMode, mounted, now,
                      timerArmedAt, timers, aiVars, fnVars>>
\* The fetcher f of cycle c settles with result, its requests answered rs
\* (budget bounds the requests of a run that do not succeed).  loadAllData
\* resumes when that settles its Promise.all: on fulfilment it writes the
\* display state, on rejection it logs; finally setLoading(false).
Settle(c, f, rs, result, budget) ==
    LET cyc == cycles[c]
        res2 == [cyc.res EXCEPT ![f] = result]
        was == PromiseAll(cyc.res)
        after == PromiseAll(res2)
    IN /\ Awaited(c, f)
       /\ FaultCount(rs) = 0 \/ RunFaults(cycles) + FaultCount(rs) <= budget
       /\ cycles' = [cycles EXCEPT
                        ![c].res = res2,
                        ![c].data[f] = [i \in DOMAIN rs |-> Got(rs[i])],
                        ![c].faults = @ + FaultCount(rs)]
       /\ IF was = "pending" /\ after = "fulfilled"
          THEN /\ btcData' = res2["btc"].val
               /\ goldData' = res2["gold"].val
               /\ fundingData' = res2["funding"].val
               /\ btcHighLow' = res2["btcHL"].val
               /\ goldHighLow' = IF build = "merged" THEN res2["goldHL"].val
                                 ELSE goldHighLow
               /\ chartData' = res2["chart"].val
               /\ lastUpdated' = c
               /\ loading' = FALSE
          ELSE /\ loading' = IF was = "pending" /\ after = "rejected"
                             THEN FALSE ELSE loading
               /\ UNCHANGED <<btcData, goldData, fundingData, btcHighLow,
                              goldHighLow, chartData, lastUpdated>>
       /\ UNCHANGED <<build, apiKey, timeFrame, chartMode, mounted, now,
                      timerArmedAt, timers, aiVars, fnVars>>

\* The timeframe buttons pressed in a run.
TimeFrameButtons == {"1h", "7d"}

\* useEffect on mount (the component is mounted once): the first load, and
\* setInterval(loadAllData, 30000).
Mount(cap) ==
    /\ ~mounted /\ cycles = << >>
    /\ mounted' = TRUE
    /\ timerArmedAt' = now
    /\ timers' = Append(timers, timeFrame)
    /\ LoadAllData(timeFrame, "mount", now, cap)
    /\ UNCHANGED <<build, apiKey, btcData, goldData, fundingData, btcHighLow,
                   goldHighLow, chartData, lastUpdated, timeFrame, chartMode,
                   now, aiVars, fnVars>>

\* Time passes without the interval firing.
Advance ==
    /\ mounted
    /\ now + 1 < timerArmedAt + Period
    /\ now' = now + 1
    /\ UNCHANGED <<build, apiKey, btcData, goldData, fundingData, btcHighLow,
                   goldHighLow, chartData, lastUpdated, loading, timeFrame,
                   chartMode, mounted, cycles, timerArmedAt, timers, aiVars,
                   fnVars>>

\* An interval callback that does nothing while a load is in flight.
TimerTickSkipsWhileLoading(cap) ==
    /\ mounted
    /\ now' = timerArmedAt + Period
    /\ timerArmedAt' = now'
    /\ \E i \in DOMAIN timers :
          IF loading
          THEN Len(cycles) < cap /\ UNCHANGED <<cycles, loading>>
          ELSE LoadAllData(timers[i], "timer", now', cap)
    /\ UNCHANGED timers
    /\ UNCHANGED <<build, apiKey, btcData, goldData, fundingData, btcHighLow,
                   goldHighLow, chartData, lastUpdated, timeFrame, chartMode,
                   mounted, aiVars, fnVars>>

\* An interval fires, one period after it was set or last fired, and is due
\* again one period later: it calls the loadAllData it was set with.
TimerTick(cap) ==
    /\ now' = timerArmedAt + Period
    /\ timerArmedAt' = now'
    /\ \E i \in DOMAIN timers : LoadAllData(timers[i], "timer", now', cap)
    /\ UNCHANGED timers
    /\ UNCHANGED <<build, apiKey, btcData, goldData, fundingData, btcHighLow,
                   goldHighLow, chartData, lastUpdated, timeFrame, chartMode,
                   mounted, aiVars, fnVars>>

\* A refresh button that also sets the interval anew.
ManualRefreshRestarts(cap) ==
    /\ mounted
    /\ timerArmedAt' = now
    /\ UNCHANGED timers
    /\ LoadAllData(timeFrame, "button", now, cap)
    /\ UNCHANGED <<build, apiKey, btcData, goldData, fundingData, btcHighLow,
                   goldHighLow, chartData, lastUpdated, timeFrame, chartMode,
                   mounted, now, aiVars, fnVars>>
\* A refresh button bound to the loadAllData of the first render.
ManualRefreshFirstRender(cap) ==
    /\ mounted
    /\ LoadAllData(cycles[1].tf, "button", now, cap)
    /\ UNCHANGED <<build, apiKey, btcData, goldData, fundingData, btcHighLow,
                   goldHighLow, chartData, lastUpdated, timeFrame, chartMode,
                   mounted, now, timerArmedAt, timers, aiVars, fnVars>>
\* The refresh button: onClick={loadAllData}.  The interval is not touched.
ManualRefresh(cap) ==
    /\ mounted
    /\ LoadAllData(timeFrame, "button", now, cap)
    /\ UNCHANGED <<build, apiKey, btcData, goldData, fundingData, btcHighLow,
                   goldHighLow, chartData, lastUpdated, timeFrame, chartMode,
                   mounted, now, timerArmedAt, timers, aiVars, fnVars>>

\* A timeframe button whose effect does not run again: no load, the interval
\* kept.
ChangeTimeFrameNoLoad(cap) ==
    \E newTf \in TimeFrameButtons :
        /\ mounted
        /\ newTf # timeFrame
        /\ Len(cycles) < cap
        /\ timeFrame' = newTf
        /\ UNCHANGED <<build, apiKey, btcData, goldData, fundingData,
                       btcHighLow, goldHighLow, chartData, lastUpdated,
                       loading, chartMode, mounted, cycles, now, timerArmedAt,
                       timers, aiVars, fnVars>>

\* The cleanup of the effect: clearInterval of the interval that run of the
\* effect set, the latest one.
ClearInterval(ts) == SubSeq(ts, 1, Len(ts) - 1)

\* A timeframe button whose effect sets its interval without clearing the
\* one before.
ChangeTimeFrameNoCleanup(cap) ==
    \E newTf \in TimeFrameButtons :
        /\ mounted
        /\ newTf # timeFrame
        /\ timeFrame' = newTf
        /\ timerArmedAt' = now
        /\ timers' = Append(timers, newTf)
        /\ LoadAllData(newTf, "timeframe", now, cap)
        /\ UNCHANGED <<build, apiKey, btcData, goldData, fundingData,
                       btcHighLow, goldHighLow, chartData, lastUpdated,
                       chartMode, mounted, now, aiVars, fnVars>>

\* A timeframe button: setTimeFrame, then the effect runs again with the new
\* loadAllData (the old interval cleared, a load started, a new interval set).
ChangeTimeFrame(cap) ==
    \E newTf \in TimeFrameButtons :
        /\ mounted
        /\ newTf # timeFrame
        /\ timeFrame' = newTf
        /\ timerArmedAt' = now
        /\ timers' = Append(ClearInterval(timers), newTf)
        /\ LoadAllData(newTf, "timeframe", now, cap)
        /\ UNCHANGED <<build, apiKey, btcData, goldData, fundingData,
                       btcHighLow, goldHighLow, chartData, lastUpdated,
                       chartMode, mounted, now, aiVars, fnVars>>

\* The component is removed: the cleanup of the effect clears the interval.
Unmount ==
    /\ mounted
    /\ mounted' = FALSE
    /\ timers' = ClearInterval(timers)
    /\ UNCHANGED <<build, apiKey, btcData, goldData, fundingData, btcHighLow,
                   goldHighLow, chartData, lastUpdated, loading, timeFrame,
                   chartMode, cycles, now, timerArmedAt, aiVars, fnVars>>

\* How many more requests of the run may go wrong.
Left(budget) == budget - RunFaults(cycles)

BtcPriceSettles(budget) ==
    \E c \in DOMAIN cycles :
        /\ Awaited(c, "btc")
        /\ \E r \in TickerAnswers(BtcTicker, Left(budget)) :
              Settle(c, "btc", <<r>>, fetchBTCPrice(r), budget)

GoldPriceSettles(budget) ==
    \E c \in DOMAIN cycles :
        /\ Awaited(c, "gold")
        /\ \E r \in TickerAnswers(GoldTicker, Left(budget)) :
              Settle(c, "gold", <<r>>, fetchGoldPrice(r), budget)

FundingRatesSettle(budget, rates) ==
    \E c \in DOMAIN cycles :
        /\ Awaited(c, "funding")
        /\ \E r \in TickerAnswers(PremiumIndex, Left(budget)) :
           \E bybit \in rates :
              Settle(c, "funding", <<r>>, fetchFundingRates(r, bybit), budget)

HighLowSettles(c, f, budget) ==
    /\ Awaited(c, f)
    /\ LET n == Left(budget)
           good(i) == BucketKlines(definitions[i])
       IN \E r1 \in KlinesAnswers(good(1), n) :
          \E r2 \in KlinesAnswers(good(2), n - Fault(r1)) :
          \E r3 \in KlinesAnswers(good(3), n - Fault(r1) - Fault(r2)) :
          \E r4 \in KlinesAnswers(good(4),
                                  n - Fault(r1) - Fault(r2) - Fault(r3)) :
             Settle(c, f, <<r1, r2, r3, r4>>,
                    fetchHighLow(<<r1, r2, r3, r4>>), budget)

\* fetchHighLow('BTCUSDT'), or fetchHighLow() with its default symbol
BtcHighLowSettles(budget) ==
    \E c \in DOMAIN cycles : HighLowSettles(c, "btcHL", budget)

\* fetchHighLow('PAXGUSDT')
GoldHighLowSettles(budget) ==
    \E c \in DOMAIN cycles : HighLowSettles(c, "goldHL", budget)

ChartDataSettles(budget) ==
    \E c \in DOMAIN cycles :
        /\ Awaited(c, "chart")
        /\ \E rb \in KlinesAnswers(BtcKlines, Left(budget)) :
           \E rg \in KlinesAnswers(GoldKlines, Left(budget) - Fault(rb)) :
              Settle(c, "chart", <<rb, rg>>,
                     fetchChartData(cycles[c].tf, rb, rg), budget)

\* The refresh loop never reads the credential.
Init == InitApp /\ apiKey = "" /\ InitAI /\ NoFn

\* The refresh loop: every trigger of loadAllData and every settlement.  The
\* requests that go wrong in a run of several cycles are klines requests of
\* the chart; the failures of every other request are those of SpecCycle.
Next ==
    \/ Mount(MaxCycles)
    \/ TimerTick(MaxCycles)
    \/ ManualRefresh(MaxCycles)
    \/ ChangeTimeFrame(MaxCycles)
    \/ BtcPriceSettles(0)
    \/ GoldPriceSettles(0)
    \/ FundingRatesSettle(0, BybitRatesOfRun)
    \/ BtcHighLowSettles(0)
    \/ GoldHighLowSettles(0)
    \/ ChartDataSettles(MaxRunFaults)

Spec == Init /\ [][Next]_vars

\* The triggers of loadAllData against the clock, no request answered yet.
NextTimer ==
    \/ Mount(MaxLoads)
    \/ Advance
    \/ TimerTick(MaxLoads)
    \/ ManualRefresh(MaxLoads)
    \/ ChangeTimeFrame(MaxLoads)
    \/ Unmount

SpecTimer == Init /\ [][NextTimer]_vars

\* One refresh cycle, from the mount to its last settlement, under every
\* combination of up to MaxFaults requests that do not succeed.
NextCycle ==
    \/ Mount(1)
    \/ BtcPriceSettles(MaxFaults)
    \/ GoldPriceSettles(MaxFaults)
    \/ FundingRatesSettle(MaxFaults, BybitRates)
    \/ BtcHighLowSettles(MaxFaults)
    \/ GoldHighLowSettles(MaxFaults)
    \/ ChartDataSettles(MaxFaults)

SpecCycle == Init /\ [][NextCycle]_vars

\* A fetcher of the cycle settles.
Answered ==
    \/ BtcPriceSettles(MaxFaults)
    \/ GoldPriceSettles(MaxFaults)
    \/ FundingRatesSettle(MaxFaults, BybitRates)
    \/ BtcHighLowSettles(MaxFaults)
    \/ GoldHighLowSettles(MaxFaults)
    \/ ChartDataSettles(MaxFaults)

\* Every request is answered in the end: while a fetcher is awaited, one
\* settles.
FairCycle == SpecCycle /\ WF_vars(Answered)

\* The refresh loop left running for ever.  cycles is a record of the calls
\* made; once no call is in flight the calls that no later step reads are
\* dropped from it, the one whose results are on display is kept, and the
\* clock starts again from 0, so that the interval can go on firing within
\* MaxCycles calls on record.
Forget ==
    /\ cycles # << >>
    /\ \A c \in DOMAIN cycles : \A f \in SubFetches : ~Awaited(c, f)
    /\ Len(cycles) > 1 \/ lastUpdated = 0 \/ now # 0
    /\ cycles' = IF lastUpdated = 0 THEN << >>
                 ELSE <<[cycles[lastUpdated] EXCEPT !.at = 0, !.faults = 0]>>
    /\ lastUpdated' = IF lastUpdated = 0 THEN 0 ELSE 1
    /\ now' = 0
    /\ timerArmedAt' = 0
    /\ UNCHANGED <<build, apiKey, btcData, goldData, fundingData, btcHighLow,
                   goldHighLow, chartData, loading, timeFrame, chartMode,
                   mounted, timers, aiVars, fnVars>>

\* The place of a fetcher in the array handed to Promise.all.
Place(f) ==
    CASE f = "btc" -> 1 [] f = "gold" -> 2 [] f = "funding" -> 3
      [] f = "btcHL" -> 4 [] f = "goldHL" -> 5 [] f = "chart" -> 6

\* The fetcher that settles in this step is the first of its cycle still
\* awaited: within a cycle of the endless loop the fetchers settle in the
\* order they were called in, the cycles between them in any order.
InCallOrder ==
    \A c \in DOMAIN cycles : \A f \in SubFetches :
        cycles'[c].res[f] # cycles[c].res[f] =>
            \A g \in SubFetches : Place(g) < Place(f) => ~Awaited(c, g)

\* A fetcher of a cycle of the loop settles.
AnsweredLive ==
    /\ \/ BtcPriceSettles(0)
       \/ GoldPriceSettles(0)
       \/ FundingRatesSettle(0, BybitRatesOfRun)
       \/ BtcHighLowSettles(0)
       \/ GoldHighLowSettles(0)
       \/ ChartDataSettles(MaxRunFaults)
    /\ InCallOrder

NextLive ==
    \/ Mount(MaxCycles)
    \/ TimerTick(MaxCycles)
    \/ ChangeTimeFrame(MaxCycles)
    \/ AnsweredLive
    \/ Forget

\* The component is mounted, every request is answered in the end and the
\* interval keeps firing.
FairLive ==
    /\ Init /\ [][NextLive]_vars
    /\ WF_vars(Mount(MaxCycles))
    /\ WF_vars(AnsweredLive)
    /\ WF_vars(TimerTick(MaxCycles))
    /\ WF_vars(Forget)

----------------------------------------------------------------------------
(* The commentary panel: AIAnalysisPanel.handleAnalyze and fetchAIAnalysis *)

\* The fixed messages (Vietnamese text written without diacritics).
NotConfiguredPanel == "Loi: Chua cau hinh API Key cho AI Analyst."
NotConfiguredService == "API Key not configured in environment."
RetryLaterMsg ==
    "He thong AI dang ban hoac gap su co ket noi. Vui long thu lai sau."
NoResponseMsg == "Khong co phan hoi tu AI."
ConnectErrorMsg == "Loi khi ket noi voi chuyen gia AI."

\* The text the service generates for a prompt of the given mode; the empty
\* string stands for a response without text.
GeneratedText(mode) ==
    CASE mode = "btc" -> "commentary on BTC"
      [] mode = "gold" -> "commentary on gold"
      [] OTHER -> "commentary on BTC and gold"

\* !process.env.API_KEY (modular handleAnalyze), !apiKey (merged
\* fetchAIAnalysis)
NeverMissing(key) == FALSE
CredentialMissing(key) == key = ""

\* The message shown when no credential is configured: the panel's own in
\* the modular build, the one fetchAIAnalysis returns in the merged build.
NotConfiguredMsg ==
    IF build = "modular" THEN NotConfiguredPanel ELSE NotConfiguredService

\* fetchAIAnalysis once generateContent has settled: the text on success;
\* its catch turns every failure into the retry-later message.
fetchAIAnalysisNoCatch(outcome) ==
    IF outcome.kind = "ok" THEN Fulfilled(outcome.text) ELSE Rejected
fetchAIAnalysis(outcome) ==
    IF outcome.kind = "ok" THEN Fulfilled(outcome.text)
    ELSE Fulfilled(RetryLaterMsg)

\* handleAnalyze after its await: setAnalysis(result || NoResponseMsg), or
\* its own catch when fetchAIAnalysis rejected.
Shown(settled) ==
    IF settled.st = "rejected" THEN ConnectErrorMsg
    ELSE IF settled.val # "" THEN settled.val ELSE NoResponseMsg

----------------------------------------------------------------------------
(* The props of the panel and the prompt fetchAIAnalysis builds from them *)

\* The chartMode prop.  The merged App passes its chartMode; the modular
\* App renders <AIAnalysisPanel> without chartMode, btcVolatility and
\* goldVolatility, which are undefined in the panel.
PropChartMode == IF build = "merged" THEN chartMode ELSE "undefined"
VolatilityPassed == build = "merged"

\* fundingRate={fundingData[0]?.rate * 100 || 0}, in units of 0.0001 %.
PropFundingRate ==
    IF fundingData = << >> THEN 0
    ELSE IF TruthyNum(fundingData[1].rate) THEN fundingData[1].rate * 100
    ELSE 0

\* The marketData object handleAnalyze hands to fetchAIAnalysis.
MarketData ==
    [btcPrice |-> btcData.price, btcChange |-> btcData.changePercent,
     goldPrice |-> goldData.price, goldChange |-> goldData.changePercent,
     fundingRate |-> PropFundingRate,
     btcVolatility |-> btcHighLow, goldVolatility |-> goldHighLow]

\* A figure interpolated into the prompt: a number, or the text "undefined"
\* that a template literal makes of undefined.
Figure(n) == [def |-> TRUE, val |-> n]
UndefinedFigure == [def |-> FALSE, val |-> Zero]

\* formatVol: one line per entry of the list, with its range, high and low.
formatVol(data) ==
    [i \in DOMAIN data |-> Figure(data[i].rangePercent)]

\* d.timeframe.includes('24'): of the four labels only '24 Gio' has it.
Includes24(label) == label = "24 Gio"

\* data.find(d => d.timeframe.includes('24'))?.rangePercent.toFixed(2)
Range24H(data) ==
    LET hits == {i \in DOMAIN data : Includes24(data[i].timeframe)}
    IN IF hits = {} THEN UndefinedFigure
       ELSE Figure(data[CHOOSE i \in hits : \A j \in hits : i <= j]
                       .rangePercent)

\* The prompt: which of the three templates, and the figures it embeds.
Prompt(marketData, mode) ==
    CASE mode = "btc" ->
           [template |-> "btc",
            prices |-> <<marketData.btcPrice>>,
            changes |-> <<marketData.btcChange>>,
            funding |-> <<marketData.fundingRate>>,
            ranges |-> formatVol(marketData.btcVolatility)]
      [] mode = "gold" ->
           [template |-> "gold",
            prices |-> <<marketData.goldPrice>>,
            changes |-> <<marketData.goldChange>>,
            funding |-> << >>,
            ranges |-> formatVol(marketData.goldVolatility)]
      [] OTHER ->
           [template |-> "combined",
            prices |-> <<marketData.btcPrice, marketData.goldPrice>>,
            changes |-> <<marketData.btcChange, marketData.goldChange>>,
            funding |-> << >>,
            ranges |-> <<Range24H(marketData.btcVolatility),
                         Range24H(marketData.goldVolatility)>>]
NoPrompt ==
    [template |-> "none", prices |-> << >>, changes |-> << >>,
     funding |-> << >>, ranges |-> << >>]

\* Every template reads a volatility list (map or find): on an undefined
\* list that throws a TypeError, inside the try of fetchAIAnalysis and
\* before generateContent is called.
PromptThrows == ~VolatilityPassed

NoCall == [st |-> "none", mode |-> "combined", since |-> 0,
           prompt |-> NoPrompt]

\* An analyse button that waits for the dashboard to be idle.
HandleAnalyzeWhenIdle ==
    /\ ~isAnalyzing
    /\ ~loading
    /\ IF CredentialMissing(apiKey)
       THEN /\ analysis' = NotConfiguredMsg
            /\ UNCHANGED <<isAnalyzing, aiCall, aiCalls>>
       ELSE IF PromptThrows
       THEN /\ analysis' = Shown(fetchAIAnalysis([kind |-> "thrown",
                                                  text |-> ""]))
            /\ UNCHANGED <<isAnalyzing, aiCall, aiCalls>>
       ELSE /\ aiCalls < MaxAICalls
            /\ isAnalyzing' = TRUE
            /\ analysis' = ""
            /\ aiCall' = [st |-> "pending", mode |-> PropChartMode,
                          since |-> Len(cycles),
                          prompt |-> Prompt(MarketData, PropChartMode)]
            /\ aiCalls' = aiCalls + 1
    /\ UNCHANGED <<appVars, fnVars>>

\* An analyse button that is never disabled.
HandleAnalyzeNeverDisabled ==
    /\ IF CredentialMissing(apiKey)
       THEN /\ analysis' = NotConfiguredMsg
            /\ UNCHANGED <<isAnalyzing, aiCall, aiCalls>>
       ELSE IF PromptThrows
       THEN /\ analysis' = Shown(fetchAIAnalysis([kind |-> "thrown",
                                                  text |-> ""]))
            /\ UNCHANGED <<isAnalyzing, aiCall, aiCalls>>
       ELSE /\ aiCalls < MaxAICalls
            /\ isAnalyzing' = TRUE
            /\ analysis' = ""
            /\ aiCall' = [st |-> "pending", mode |-> PropChartMode,
                          since |-> Len(cycles),
                          prompt |-> Prompt(MarketData, PropChartMode)]
            /\ aiCalls' = aiCalls + 1
    /\ UNCHANGED <<appVars, fnVars>>

\* The analyse button (disabled while isAnalyzing); since is the number of
\* refresh cycles started before the request.  Without a credential no
\* call is made: the modular panel returns before setIsAnalyzing(true), the
\* merged fetchAIAnalysis returns its message at once and the handler shows
\* it and resets isAnalyzing.  A prompt that throws is caught by
\* fetchAIAnalysis, which returns its retry-later message at once as well.
HandleAnalyze ==
    /\ ~isAnalyzing
    /\ IF CredentialMissing(apiKey)
       THEN /\ analysis' = NotConfiguredMsg
            /\ UNCHANGED <<isAnalyzing, aiCall, aiCalls>>
       ELSE IF PromptThrows
       THEN /\ analysis' = Shown(fetchAIAnalysis([kind |-> "thrown",
                                                  text |-> ""]))
            /\ UNCHANGED <<isAnalyzing, aiCall, aiCalls>>
       ELSE /\ aiCalls < MaxAICalls
            /\ isAnalyzing' = TRUE
            /\ analysis' = ""
            /\ aiCall' = [st |-> "pending", mode |-> PropChartMode,
                          since |-> Len(cycles),
                          prompt |-> Prompt(MarketData, PropChartMode)]
            /\ aiCalls' = aiCalls + 1
    /\ UNCHANGED <<appVars, fnVars>>

\* generateContent resolves.
AIResponds ==
    /\ aiCall.st = "pending"
    /\ \E text \in {GeneratedText(aiCall.mode), ""} :
          analysis' = Shown(fetchAIAnalysis([kind |-> "ok", text |-> text]))
    /\ isAnalyzing' = FALSE
    /\ aiCall' = [aiCall EXCEPT !.st = "ok"]
    /\ UNCHANGED <<appVars, aiCalls, fnVars>>

\* A rejected generateContent answered by sending the request again.
AIFailsRetries ==
    /\ aiCall.st = "pending"
    /\ aiCalls < MaxAICalls
    /\ aiCalls' = aiCalls + 1
    /\ UNCHANGED <<appVars, analysis, isAnalyzing, aiCall, fnVars>>

\* generateContent rejects: no connection, the call refused, a status that
\* is not 2xx.
AIFails ==
    /\ aiCall.st = "pending"
    /\ \E kind \in {"transport", "refused", "status"} :
          analysis' = Shown(fetchAIAnalysis([kind |-> kind, text |-> ""]))
    /\ isAnalyzing' = FALSE
    /\ aiCall' = [aiCall EXCEPT !.st = "failed"]
    /\ UNCHANGED <<appVars, aiCalls, fnVars>>

\* A chart-mode button: setChartMode; the panel's effect on [chartMode]
\* clears the text when its chartMode prop changes.
ChangeChartMode ==
    \E mode \in ChartModes :
        /\ mode # chartMode
        /\ chartMode' = mode
        /\ UNCHANGED <<build, apiKey, btcData, goldData, fundingData,
                       btcHighLow, goldHighLow, chartData, lastUpdated,
                       loading, timeFrame, mounted, cycles, now,
                       timerArmedAt, timers, isAnalyzing, aiCall, aiCalls,
                       fnVars>>
        /\ analysis' = IF PropChartMode' # PropChartMode THEN ""
                       ELSE analysis

InitPanel == InitApp /\ apiKey \in ApiKeys /\ InitAI /\ NoFn

NextAI ==
    \/ HandleAnalyze
    \/ AIResponds
    \/ AIFails
    \/ ChangeChartMode

SpecAI == InitPanel /\ [][NextAI]_vars

\* The dashboard with a credential: the interval and its refresh cycles next
\* to the commentary requests, every request answered with its body.
InitBoth == InitApp /\ apiKey = "key" /\ InitAI /\ NoFn

NextBoth ==
    \/ Mount(MaxCycles)
    \/ TimerTick(MaxCycles)
    \/ BtcPriceSettles(0)
    \/ GoldPriceSettles(0)
    \/ FundingRatesSettle(0, BybitRatesOfRun)
    \/ BtcHighLowSettles(0)
    \/ GoldHighLowSettles(0)
    \/ ChartDataSettles(0)
    \/ HandleAnalyze
    \/ AIResponds
    \/ AIFails

SpecBoth == InitBoth /\ [][NextBoth]_vars

----------------------------------------------------------------------------
(* fetchChartData applied to every pair of klines responses *)

Stamps == 1 .. MaxStamp
BtcCloses == {"100", "110"}
GoldCloses == {"50", "0.00"}

\* Klines as the provider sends them: open times strictly increasing.
IsIncreasing(s) == \A i \in 1 .. (Len(s) - 1) : At(s[i], 0) < At(s[i + 1], 0)
KlinesOf(closes) ==
    LET ks == {Kline(ts, "100", "110", "50", c) : ts \in Stamps, c \in closes}
    IN UNION {{s \in [1 .. n -> ks] : IsIncreasing(s)} : n \in 0 .. MaxLen}

\* The answers a klines request can get: a candle array (possibly empty), a
\* failure, or a 2xx body that is a JSON object instead of an array.
KlinesResponses(closes) ==
    {RespOk(JArray(s)) : s \in KlinesOf(closes)}
        \cup Failures \cup {RespOk(EmptyObject)}

InitChart ==
    /\ InitApp /\ apiKey = "" /\ InitAI
    /\ fn = "fetchChartData"
    /\ args \in [timeFrame : TimeFrames \cup {"other"},
                  btc : KlinesResponses(BtcCloses),
                  gold : KlinesResponses(GoldCloses)]
    /\ ret = Pending
    /\ reqs = << >>

CallFetchChartData ==
    /\ fn = "fetchChartData"
    /\ ret.st = "pending"
    /\ ret' = fetchChartData(args.timeFrame, args.btc, args.gold)
    /\ reqs' = ChartRequests(args.timeFrame)
    /\ UNCHANGED <<appVars, aiVars, fn, args>>

SpecChart == InitChart /\ [][CallFetchChartData]_vars

----------------------------------------------------------------------------
(* fetchHighLow applied to every four answers of its klines requests *)

\* (high, low) of the latest candle of a bucket.
HighLowPairs == {<<"110", "100">>, <<"110", "50">>, <<"110", "0.00">>,
                 <<"0.00", "0.00">>}

\* At most def.limit candles come back, the latest one last.
BucketResponses(def) ==
    {RespOk(JArray(<< >>))}
        \cup {RespOk(JArray(<<LatestKline(p)>>)) : p \in HighLowPairs}
        \cup (IF def.limit >= 2
              THEN {RespOk(JArray(<<EarlierKline, LatestKline(p)>>)) :
                        p \in HighLowPairs}
              ELSE {})
        \cup Failures \cup {RespOk(EmptyObject)}

InitHighLow ==
    /\ InitApp /\ apiKey = "" /\ InitAI
    /\ fn = "fetchHighLow"
    /\ args \in {a \in [DOMAIN definitions ->
                            UNION {BucketResponses(definitions[i]) :
                                       i \in DOMAIN definitions}] :
                    \A i \in DOMAIN definitions :
                        a[i] \in BucketResponses(definitions[i])}
    /\ ret = Pending
    /\ reqs = << >>

CallFetchHighLow ==
    /\ fn = "fetchHighLow"
    /\ ret.st = "pending"
    /\ ret' = fetchHighLow(args)
    /\ reqs' = HighLowRequests("BTCUSDT")
    /\ UNCHANGED <<appVars, aiVars, fn, args>>

SpecHL == InitHighLow /\ [][CallFetchHighLow]_vars

----------------------------------------------------------------------------
(* Properties of fetchChartData (under SpecChart) *)

IsSeries(resp) == resp.kind = "ok" /\ resp.body.t = "array"
SeriesOf(resp) == resp.body.v
ChartReturned == fn = "fetchChartData" /\ ret.st # "pending"

\* C3: whenever the BTC request returned a non-empty candle series, and the
\* gold request returned a series of any length or failed, fetchChartData
\* returns exactly one point per BTC candle, in the order of the BTC series.
C3_LengthFollowsPrimary ==
    (/\ ChartReturned
     /\ IsSeries(args.btc) /\ Len(SeriesOf(args.btc)) > 0
     /\ (IsSeries(args.gold) \/ args.gold \in Failures))
        => /\ ret.st = "fulfilled"
           /\ Len(ret.val) = Len(SeriesOf(args.btc))
           /\ \A i \in DOMAIN ret.val :
                  ret.val[i].timestamp = At(SeriesOf(args.btc)[i], 0)

\* A two-candle BTC series merged with a gold series that has a gap: a single
\* gold candle.
C3_Witness ==
    /\ ChartReturned /\ ret.st = "fulfilled"
    /\ IsSeries(args.btc) /\ Len(SeriesOf(args.btc)) = 2
    /\ IsSeries(args.gold) /\ Len(SeriesOf(args.gold)) = 1
    /\ Len(ret.val) = 2

\* C4: whenever the BTC request failed or returned no candle and the gold
\* request returned a non-empty series, fetchChartData returns one point per
\* gold candle, carrying the gold candles' timestamps in order.
C4_FallsBackToSecondary ==
    (/\ ChartReturned
     /\ \/ args.btc \in Failures
        \/ IsSeries(args.btc) /\ Len(SeriesOf(args.btc)) = 0
     /\ IsSeries(args.gold) /\ Len(SeriesOf(args.gold)) > 0)
        => /\ ret.st = "fulfilled"
           /\ Len(ret.val) = Len(SeriesOf(args.gold))
           /\ \A i \in DOMAIN ret.val :
                  ret.val[i].timestamp = At(SeriesOf(args.gold)[i], 0)

C4_Witness ==
    /\ ChartReturned /\ ret.st = "fulfilled"
    /\ args.btc \in Failures
    /\ IsSeries(args.gold) /\ Len(SeriesOf(args.gold)) = 2
    /\ Len(ret.val) = 2 /\ ret.val[2].timestamp = At(SeriesOf(args.gold)[2], 0)

\* The gold candles whose open time is t.
GoldAt(t) == {j \in DOMAIN SeriesOf(args.gold) : At(SeriesOf(args.gold)[j], 0) = t}

\* C5: every point built from a BTC candle carries that candle's close as btc
\* and, as xau, the close of the gold candle of the same timestamp, or 2650
\* when no gold candle has that timestamp.
C5_MergeByTimestamp ==
    (/\ ChartReturned /\ ret.st = "fulfilled"
     /\ IsSeries(args.btc) /\ Len(SeriesOf(args.btc)) > 0
     /\ IsSeries(args.gold))
        => \A i \in DOMAIN ret.val :
              LET k == SeriesOf(args.btc)[i]
              IN /\ ret.val[i].btc = parseFloat(At(k, 4))
                 /\ IF GoldAt(At(k, 0)) = {}
                    THEN ret.val[i].xau = XauFallback
                    ELSE \E j \in GoldAt(At(k, 0)) :
                            ret.val[i].xau =
                                parseFloat(At(SeriesOf(args.gold)[j], 4))

----------------------------------------------------------------------------
(* Properties of fetchHighLow (under SpecHL) *)

HighLowReturned == fn = "fetchHighLow" /\ ret.st = "fulfilled"

\* The bucket's request brought at least one candle.
HasCandle(i) == IsSeries(args[i]) /\ Len(SeriesOf(args[i])) > 0
LatestOf(i) == SeriesOf(args[i])[Len(SeriesOf(args[i]))]

\* C6: in every list fetchHighLow returns, a bucket whose candle has low = 0
\* has rangePercent = 0, whatever the candle's high.
C6_ZeroLowZeroRange ==
    HighLowReturned =>
        \A i \in DOMAIN definitions :
            (HasCandle(i) /\ parseFloat(At(LatestOf(i), 3)) = 0)
                => ret.val[i].rangePercent = Zero

C6_Witness ==
    /\ HighLowReturned
    /\ \E i \in DOMAIN definitions :
          /\ HasCandle(i)
          /\ parseFloat(At(LatestOf(i), 3)) = 0
          /\ parseFloat(At(LatestOf(i), 2)) > 0
          /\ ret.val[i].high > 0 /\ ret.val[i].rangePercent = Zero

\* C7: in every list fetchHighLow returns, a bucket whose latest candle has
\* low > 0 reports that candle's high and low and a rangePercent r with
\* r = (high - low) / low * 100, i.e. r.num * low = (high - low) * 100 * r.den.
C7_RangeFormula ==
    HighLowReturned =>
        \A i \in DOMAIN definitions :
            LET high == parseFloat(At(LatestOf(i), 2))
                low == parseFloat(At(LatestOf(i), 3))
                r == ret.val[i].rangePercent
            IN (HasCandle(i) /\ low > 0)
                  => /\ ret.val[i].high = high /\ ret.val[i].low = low
                     /\ r.den > 0
                     /\ r.num * low = (high - low) * 100 * r.den

\* A bucket answered with two candles whose latest has 0 < low < high.
C7_Witness ==
    /\ HighLowReturned
    /\ \E i \in DOMAIN definitions :
          /\ HasCandle(i) /\ Len(SeriesOf(args[i])) = 2
          /\ parseFloat(At(LatestOf(i), 3)) = 50
          /\ parseFloat(At(LatestOf(i), 2)) = 110
          /\ ret.val[i].rangePercent = [num |-> 120, den |-> 1]

\* The request of the bucket failed or brought no candle.
NoCandle(i) ==
    args[i] \in Failures \/ (IsSeries(args[i]) /\ Len(SeriesOf(args[i])) = 0)

\* C21: whatever the answers to its four klines requests, fetchHighLow
\* returns four entries in the order 1h, 4h, 1d, 1w; the entry of a bucket
\* whose request failed or brought no candle has high, low and rangePercent
\* 0, and every other entry has the high and low of its own latest candle.
C21_FourEntriesAlways ==
    (fn = "fetchHighLow" /\ ret.st # "pending") =>
        /\ ret.st = "fulfilled"
        /\ [i \in DOMAIN ret.val |-> ret.val[i].timeframe]
              = <<"1 Gio", "4 Gio", "24 Gio", "7 Ngay">>
        /\ \A i \in DOMAIN definitions :
              /\ NoCandle(i) =>
                    /\ ret.val[i].high = 0 /\ ret.val[i].low = 0
                    /\ ret.val[i].rangePercent = Zero
              /\ HasCandle(i) =>
                    /\ ret.val[i].high = parseFloat(At(LatestOf(i), 2))
                    /\ ret.val[i].low = parseFloat(At(LatestOf(i), 3))

----------------------------------------------------------------------------
(* Properties of one refresh cycle (under SpecCycle) *)

Settled(c, f) == cycles[c].res[f].st # "pending"

\* The value a high/low bucket reports for the candles the provider sends.
NominalBucket(i) ==
    IF definitions[i].limit >= 2
    THEN [timeframe |-> definitions[i].label, high |-> 110, low |-> 100,
          rangePercent |-> [num |-> 10, den |-> 1]]
    ELSE [timeframe |-> definitions[i].label, high |-> 110, low |-> 50,
          rangePercent |-> [num |-> 120, den |-> 1]]
EmptyBucket(i) ==
    [timeframe |-> definitions[i].label, high |-> 0, low |-> 0,
     rangePercent |-> [num |-> 0, den |-> 1]]

\* The value fetcher f owes for the requests it made, got[i] telling whether
\* request i brought its body: the value of the provider's data where the
\* request succeeded, the fixed fallback where it did not.
Owes(f, got, val) ==
    CASE f = "btc" ->
           val = IF got[1] = "body"
                 THEN [price |-> 110, changePercent |-> 50, change24h |-> 100]
                 ELSE [price |-> 95000, changePercent |-> 0]
      [] f = "gold" ->
           val = IF got[1] = "body"
                 THEN [price |-> 50, changePercent |-> 0]
                 ELSE [price |-> 2650, changePercent |-> 0]
      [] f = "funding" ->
           /\ Len(val) = 2
           /\ val[1] = [exchange |-> "Binance",
                        rate |-> IF got[1] = "body" THEN 50 ELSE 100]
           /\ val[2].exchange = "Bybit" /\ val[2].rate \in 100..149
      [] f \in {"btcHL", "goldHL"} ->
           /\ Len(val) = 4
           /\ \A i \in 1..4 :
                 val[i] = IF got[i] = "body" THEN NominalBucket(i)
                          ELSE EmptyBucket(i)
      [] f = "chart" ->
           [i \in DOMAIN val |-> <<val[i].timestamp, val[i].btc, val[i].xau>>]
             = IF got[1] = "body"
               THEN << <<1, 100, IF got[2] = "body" THEN 50 ELSE 2650>>,
                       <<2, 110, 2650>> >>
               ELSE IF got[2] = "body" THEN << <<1, 0, 50>> >> ELSE << >>

\* C1: whatever the answers to the requests of a refresh cycle, every fetcher
\* that has settled returned a value to loadAllData, none raised, and the
\* value is the provider's data with the fixed fallback in exactly the fields
\* whose request did not succeed.
C1_FetchersNeverRaise ==
    \A c \in DOMAIN cycles :
        \A f \in DOMAIN cycles[c].res :
            Settled(c, f) =>
                /\ cycles[c].res[f].st = "fulfilled"
                /\ Owes(f, cycles[c].data[f], cycles[c].res[f].val)

\* C2: a BTC ticker request that failed makes fetchBTCPrice return exactly
\* {price 95000, changePercent 0}, and a gold ticker request that failed
\* makes fetchGoldPrice return exactly {price 2650, changePercent 0}.
C2_TickerFallbacks ==
    \A c \in DOMAIN cycles :
        /\ (Settled(c, "btc") /\ cycles[c].data["btc"][1] = "null")
              => cycles[c].res["btc"] =
                    [st |-> "fulfilled",
                     val |-> [price |-> 95000, changePercent |-> 0]]
        /\ (Settled(c, "gold") /\ cycles[c].data["gold"][1] = "null")
              => cycles[c].res["gold"] =
                    [st |-> "fulfilled",
                     val |-> [price |-> 2650, changePercent |-> 0]]

\* Both ticker requests of a cycle failed and both fallbacks are on display.
C2_Witness ==
    /\ cycles # << >>
    /\ Settled(1, "btc") /\ cycles[1].data["btc"][1] = "null"
    /\ Settled(1, "gold") /\ cycles[1].data["gold"][1] = "null"
    /\ ~loading
    /\ btcData.price = 95000 /\ goldData.price = 2650

\* C10: every fetcher of a cycle is started with the cycle; the display state
\* is written and loading cleared only after all of them have settled, and
\* once all have settled the cycle is complete.
C10_CompletesWhenAllSettled ==
    \A c \in DOMAIN cycles :
        LET all == \A f \in SubFetches : Settled(c, f)
        IN /\ DOMAIN cycles[c].res = SubFetches
           /\ (~loading \/ lastUpdated = c) => all
           /\ all => ~loading

\* C11: a refresh cycle that has set loading returns to idle, loading =
\* FALSE, once its requests are answered, whether they succeed or fail
\* (under FairCycle).
C11_LoadingReturnsToIdle == (mounted /\ loading) ~> ~loading

\* A cycle with two failed requests is over and the dashboard idle.
C11_Witness ==
    /\ mounted /\ ~loading
    /\ cycles[1].faults = 2
    /\ \A f \in SubFetches : Settled(1, f)

\* A number the page can draw: toFixed and toLocaleString of NaN give "NaN".
Renderable(n) == n # NaN

\* C16: in every state (before the first cycle completes, after a cycle
\* whose requests all succeeded, after a cycle with any combination of
\* requests that did not) every display field holds a renderable value:
\* the price and changePercent of both tickers, every funding rate, every
\* high and low, every point of the chart; none is NaN.
C16_AlwaysRenderable ==
    /\ Renderable(btcData.price) /\ Renderable(btcData.changePercent)
    /\ Renderable(goldData.price) /\ Renderable(goldData.changePercent)
    /\ \A i \in DOMAIN fundingData : Renderable(fundingData[i].rate)
    /\ \A i \in DOMAIN btcHighLow :
          Renderable(btcHighLow[i].high) /\ Renderable(btcHighLow[i].low)
    /\ \A i \in DOMAIN goldHighLow :
          Renderable(goldHighLow[i].high) /\ Renderable(goldHighLow[i].low)
    /\ \A i \in DOMAIN chartData :
          Renderable(chartData[i].btc) /\ Renderable(chartData[i].xau)

\* The display field that fetcher f's result is written to.
DisplayOf(f) ==
    CASE f = "btc" -> btcData
      [] f = "gold" -> goldData
      [] f = "funding" -> fundingData
      [] f = "btcHL" -> btcHighLow
      [] f = "goldHL" -> goldHighLow
      [] f = "chart" -> chartData

----------------------------------------------------------------------------
(* Properties of the refresh loop (under Spec and SpecTimer) *)

\* This step starts a refresh cycle: loading is set and a new batch of
\* fetchers, one per sub-fetch of the build, is awaited for the timeframe
\* selected; the cycles in flight are left as they are.
StartsCycle ==
    /\ Len(cycles') = Len(cycles) + 1
    /\ SubSeq(cycles', 1, Len(cycles)) = cycles
    /\ loading' = TRUE
    /\ cycles'[Len(cycles')].tf = timeFrame'
    /\ cycles'[Len(cycles')].res = [f \in SubFetches |-> Pending]

\* C12: the mount, every tick of the interval, every manual refresh and
\* every change of the timeframe to another value starts a refresh cycle.
C12_TriggersStartCycle ==
    [][(\/ mounted' # mounted
        \/ now' = timerArmedAt + Period
        \/ ManualRefresh(MaxCycles)
        \/ timeFrame' # timeFrame) => StartsCycle]_vars

\* The first cycle is over and the dashboard idle when the interval fires:
\* loading is set again and a second batch awaited.
C12_Witness ==
    /\ Len(cycles) = 2
    /\ \A f \in SubFetches : Settled(1, f) /\ ~Settled(2, f)
    /\ lastUpdated = 1
    /\ cycles[2].by = "timer" /\ cycles[2].at = Period
    /\ loading

\* The batch of cycle c is fulfilled by this step.
Fulfils(c) ==
    /\ PromiseAll(cycles[c].res) = "pending"
    /\ PromiseAll(cycles'[c].res) = "fulfilled"

\* C14: a timeframe change leaves the cycles in flight as they are, and a
\* cycle whose batch is fulfilled writes its chart to the display state
\* whatever the timeframe selected by then and whichever cycles completed
\* before it: the last write wins.
C14_LateResultOverwrites ==
    [][/\ timeFrame' # timeFrame
            => SubSeq(cycles', 1, Len(cycles)) = cycles
       /\ \A c \in DOMAIN cycles :
             Fulfils(c) => /\ chartData' = cycles'[c].res["chart"].val
                           /\ lastUpdated' = c]_vars

\* The cycle started for 1h completed after the one started for 7d: with 7d
\* selected the chart held is the one fetched for 1h, labelled by time of day.
C14_Witness ==
    /\ Len(cycles) = 2
    /\ cycles[1].tf = "1h" /\ cycles[2].tf = "7d" /\ timeFrame = "7d"
    /\ \A c \in {1, 2} : PromiseAll(cycles[c].res) = "fulfilled"
    /\ lastUpdated = 1
    /\ chartData = cycles[1].res["chart"].val
    /\ chartData # cycles[2].res["chart"].val
    /\ chartData[1].time.fmt = "time"

\* The display state is the one cycle c wrote.
WrittenBy(c) ==
    LET r == cycles[c].res
    IN /\ PromiseAll(r) = "fulfilled"
       /\ btcData = r["btc"].val
       /\ goldData = r["gold"].val
       /\ fundingData = r["funding"].val
       /\ btcHighLow = r["btcHL"].val
       /\ goldHighLow = IF build = "merged" THEN r["goldHL"].val ELSE << >>
       /\ chartData = r["chart"].val

\* The display state is the one of construction.
Untouched ==
    /\ btcData = [price |-> 0, changePercent |-> 0]
    /\ goldData = [price |-> 0, changePercent |-> 0]
    /\ fundingData = << >> /\ btcHighLow = << >> /\ goldHighLow = << >>
    /\ chartData = << >>

\* C18: the tickers, the funding list, the high/low lists and the chart held
\* in display state are those of construction or all written by one and the
\* same cycle, also when cycles overlap or a cycle is abandoned.
C18_ReplacedTogether ==
    Untouched \/ \E c \in DOMAIN cycles : WrittenBy(c)

\* Two cycles overlapped, one with a failed chart request; the one that
\* completed last wrote every field, the chart with its fallback included.
C18_Witness ==
    /\ Len(cycles) = 2
    /\ \A c \in {1, 2} : \A f \in SubFetches : Settled(c, f)
    /\ cycles[1].faults = 1 /\ lastUpdated = 1
    /\ WrittenBy(1) /\ ~WrittenBy(2)

\* The batch of cycle c has not settled.
InFlight(c) == PromiseAll(cycles[c].res) = "pending"

\* C24: a timer tick, a press of the refresh button or a timeframe change
\* made while a cycle is in flight starts a further cycle at once, every
\* fetcher of it pending, and leaves the cycles in flight as they are.
C24_TriggersOverlap ==
    [][(/\ \E c \in DOMAIN cycles : InFlight(c)
        /\ \/ now' = timerArmedAt + Period
           \/ ManualRefresh(MaxCycles)
           \/ timeFrame' # timeFrame)
          => /\ Len(cycles') = Len(cycles) + 1
             /\ \A c \in DOMAIN cycles : cycles'[c] = cycles[c]
             /\ \A f \in SubFetches :
                   cycles'[Len(cycles')].res[f] = Pending]_vars

\* A press of the refresh button during the first cycle: two cycles in
\* flight at once.
C24_Witness ==
    /\ Len(cycles) = 2
    /\ cycles[2].by = "button"
    /\ InFlight(1) /\ InFlight(2)

\* C25: loading is TRUE in every state in which a refresh cycle is in
\* flight, also when cycles overlap and one of them completes first.
C25_LoadingWhileInFlight ==
    (\E c \in DOMAIN cycles : InFlight(c)) => loading

displayVars ==
    <<btcData, goldData, fundingData, btcHighLow, goldHighLow, chartData,
      lastUpdated>>

\* C23: the step at which a fetcher of cycle c raises, and every later
\* settlement of that cycle, leaves both tickers, the funding list, the
\* high/low lists, the chart and lastUpdated as they were; the failing step
\* changes loading only, to FALSE.
C23_FailedCycleWritesNothing ==
    [][\A c \in DOMAIN cycles :
          (cycles'[c] # cycles[c] /\ PromiseAll(cycles'[c].res) = "rejected")
             => /\ UNCHANGED displayVars
                /\ PromiseAll(cycles[c].res) = "pending" => ~loading']_vars

\* The second cycle failed after the first had written the display state:
\* the first cycle's values are still there and the dashboard is idle.
C23_Witness ==
    /\ Len(cycles) = 2
    /\ PromiseAll(cycles[2].res) = "rejected"
    /\ WrittenBy(1) /\ lastUpdated = 1
    /\ ~loading

\* The calls of loadAllData made by the interval.
Ticks == {c \in DOMAIN cycles : cycles[c].by = "timer"}

\* The last call before call c that set the interval or was made by it.
LastArming(c) ==
    CHOOSE p \in 1 .. (c - 1) :
        /\ cycles[p].by # "button"
        /\ \A q \in (p + 1) .. (c - 1) : cycles[q].by = "button"

\* A step that starts a cycle, and the cycle it starts.
Starts == Len(cycles') = Len(cycles) + 1
Started == cycles'[Len(cycles')]

\* C26: at most one interval is set at any time.  While the component is
\* mounted it is the one set for the selected timeframe, the one of the
\* timeframe before being cleared by the change and never firing again;
\* after unmount none is left and no cycle starts any more.
C26_AtMostOneTimer ==
    /\ [](/\ Len(timers) <= 1
          /\ mounted => timers = <<timeFrame>>
          /\ ~mounted => timers = << >>)
    /\ [][/\ (Starts /\ Started.by = "timer") => Started.tf = timeFrame
          /\ (~mounted /\ ~mounted') => cycles' = cycles]_vars

\* The timeframe was changed, the interval fired after that, and the
\* component was unmounted.
C26_Witness ==
    /\ ~mounted /\ timers = << >>
    /\ Len(cycles) = 3
    /\ cycles[2].by = "timeframe" /\ cycles[3].by = "timer"
    /\ cycles[3].tf = "7d"

\* C27: every cycle started, by the interval or by the refresh button as
\* well, asks fetchChartData for the timeframe selected at that time, also
\* after a change of the timeframe.
C27_CyclesUseSelectedTimeFrame ==
    [][Starts => Started.tf = timeFrame']_vars

\* After a change to 7d the interval fired and the refresh button was
\* pressed: both cycles ask for 7d.
C27_Witness ==
    /\ Len(cycles) = 4
    /\ cycles[1].tf = "1h"
    /\ cycles[2].by = "timeframe" /\ cycles[2].tf = "7d"
    /\ cycles[3].by = "timer" /\ cycles[3].tf = "7d"
    /\ cycles[4].by = "button" /\ cycles[4].tf = "7d"
    /\ timeFrame = "7d"

\* C13 as stated: every load restarts the interval, so each tick comes one
\* full period after the load before it, manual or automatic.
C13_TimerRestartedOnEveryLoad ==
    \A c \in Ticks : cycles[c].at = cycles[c - 1].at + Period

\* C13, amended: only the mount and a timeframe change set the interval; each
\* tick comes one full period after the previous tick or after the interval
\* was set, whatever manual refreshes happened in between.
C13_TickOnePeriodAfterArming ==
    \A c \in Ticks : cycles[c].at = cycles[LastArming(c)].at + Period

\* A manual refresh between the mount and the first tick: the tick comes one
\* period after the mount, less than one period after the refresh.
C13_Witness ==
    /\ Len(cycles) >= 3
    /\ cycles[1].by = "mount" /\ cycles[2].by = "button"
    /\ cycles[3].by = "timer"
    /\ cycles[2].at > cycles[1].at
    /\ cycles[3].at = cycles[1].at + Period
    /\ cycles[3].at < cycles[2].at + Period

----------------------------------------------------------------------------
(* Properties of the refresh loop next to the commentary (under SpecBoth) *)

refreshVars == <<btcData, goldData, fundingData, btcHighLow, goldHighLow,
                 chartData, lastUpdated, loading, timeFrame, mounted, cycles,
                 now, timerArmedAt, timers>>

\* C15: the refresh loop and the commentary request do not block each other.
\* Whatever the state of the commentary, the interval can fire and a ticker
\* or funding fetcher awaited can settle; whatever the state of the refresh loop, an
\* analyse action can start a request and a request in flight can settle;
\* and a step of the one leaves the state of the other as it is.
C15_NoMutualBlocking ==
    /\ [](/\ (mounted /\ Len(cycles) < MaxCycles)
               => ENABLED TimerTick(MaxCycles)
          /\ (\E c \in DOMAIN cycles : Awaited(c, "btc"))
               => ENABLED BtcPriceSettles(0)
          /\ (\E c \in DOMAIN cycles : Awaited(c, "gold"))
               => ENABLED GoldPriceSettles(0)
          /\ (\E c \in DOMAIN cycles : Awaited(c, "funding"))
               => ENABLED FundingRatesSettle(0, BybitRatesOfRun)
          /\ (~isAnalyzing /\ aiCalls < MaxAICalls) => ENABLED HandleAnalyze
          /\ aiCall.st = "pending" => ENABLED AIResponds /\ ENABLED AIFails)
    /\ [][/\ refreshVars' # refreshVars => UNCHANGED aiVars
          /\ aiVars' # aiVars => UNCHANGED refreshVars]_vars

\* A commentary request is in flight, and a refresh cycle started by the
\* interval after the request was made has completed.
C15_Witness ==
    /\ aiCall.st = "pending" /\ isAnalyzing
    /\ Len(cycles) = 2 /\ aiCall.since = 1
    /\ cycles[2].by = "timer"
    /\ \A f \in SubFetches : Settled(2, f)
    /\ lastUpdated = 2 /\ ~loading

\* The (interval, count) pair the documented table gives a timeframe.
TablePair(tf) ==
    CASE tf = "1h" -> <<"1m", 60>>
      [] tf = "4h" -> <<"5m", 48>>
      [] tf = "24h" -> <<"15m", 96>>
      [] tf = "7d" -> <<"2h", 84>>
      [] OTHER -> <<"1h", 168>>

\* C20: a call of fetchChartData sends two klines requests, BTCUSDT and
\* PAXGUSDT, both with the interval and the count of the table: 1h (1m, 60),
\* 4h (5m, 48), 24h (15m, 96), 7d (2h, 84), any other value (1h, 168).
C20_TimeframeTable ==
    (fn = "fetchChartData" /\ ret.st # "pending") =>
        /\ Len(reqs) = 2
        /\ reqs[1] = [symbol |-> "BTCUSDT",
                      interval |-> TablePair(args.timeFrame)[1],
                      limit |-> TablePair(args.timeFrame)[2]]
        /\ reqs[2] = [symbol |-> "PAXGUSDT",
                      interval |-> TablePair(args.timeFrame)[1],
                      limit |-> TablePair(args.timeFrame)[2]]

\* A call with a timeframe outside the table has asked for 168 candles of
\* one hour for both symbols.
C20_Witness ==
    /\ fn = "fetchChartData" /\ ret.st = "fulfilled"
    /\ args.timeFrame = "other"
    /\ Len(reqs) = 2
    /\ reqs[1].interval = "1h" /\ reqs[2].limit = 168

----------------------------------------------------------------------------
(* Properties of the commentary panel (under SpecAI) *)

\* C8: with no credential configured a commentary request issues no call to
\* the AI service, and the panel shows nothing but the fixed not-configured
\* message of the build.
C8_NoCredentialNoCall ==
    apiKey = "" =>
        /\ aiCalls = 0
        /\ aiCall.st = "none"
        /\ ~isAnalyzing
        /\ analysis \in {"", IF build = "modular"
                              THEN NotConfiguredPanel
                              ELSE NotConfiguredService}

\* A request was made without a credential: its message is on display.
C8_Witness ==
    /\ apiKey = ""
    /\ analysis \in {NotConfiguredPanel, NotConfiguredService}
    /\ aiCalls = 0

\* C9: when the call to the AI service fails, fetchAIAnalysis returns the
\* fixed retry-later message instead of rejecting, and the panel shows that
\* message and leaves the analysing state.
C9_FailureShowsRetryLater ==
    [][(aiCall.st = "pending" /\ aiCall'.st = "failed")
          => (analysis' = RetryLaterMsg /\ isAnalyzing' = FALSE)]_vars

\* A call was issued and failed; the retry-later message is on display.
C9_Witness ==
    /\ aiCall.st = "failed"
    /\ aiCalls > 0
    /\ analysis = RetryLaterMsg
    /\ ~isAnalyzing

\* C19: a call to the generative-text service goes out only on an analyse
\* action taken while none is in flight, one call per action; a call that
\* fails ends the action (isAnalyzing reset) and sends nothing more.
C19_OneCallPerAnalyse ==
    [][/\ aiCalls' \in {aiCalls, aiCalls + 1}
       /\ aiCalls' = aiCalls + 1 =>
             /\ ~isAnalyzing /\ aiCall.st # "pending"
             /\ isAnalyzing' /\ aiCall'.st = "pending"
       /\ aiCall.st = "pending" =>
             \/ UNCHANGED <<aiCall, aiCalls, isAnalyzing>>
             \/ /\ aiCall'.st \in {"ok", "failed"}
                /\ aiCalls' = aiCalls
                /\ ~isAnalyzing']_vars

\* The first call failed, a second analyse action sent the second call, and
\* that one failed as well.
C19_Witness ==
    /\ aiCalls = 2
    /\ aiCall.st = "failed"
    /\ ~isAnalyzing

\* C29: at most one commentary request is in flight: isAnalyzing is TRUE
\* exactly while a request is pending, no analyse action sends a request
\* while it is TRUE, and the step that settles the request, with a text or
\* with a failure, sets it back to FALSE.
C29_OneRequestInFlight ==
    /\ [](isAnalyzing <=> aiCall.st = "pending")
    /\ [][/\ isAnalyzing => aiCalls' = aiCalls
          /\ (aiCall.st = "pending" /\ aiCall' # aiCall)
                => (aiCall'.st \in {"ok", "failed"} /\ ~isAnalyzing')]_vars

\* The first request was answered with a text; a second one is in flight.
C29_Witness ==
    /\ aiCalls = 2
    /\ aiCall.st = "pending" /\ isAnalyzing
    /\ analysis = ""

\* C30: a commentary on display is the one generated for the display mode
\* selected now: a mode change clears the text, and the answer to a request
\* made under the mode before is not shown after the change.
C30_TextOfSelectedMode ==
    \A mode \in ChartModes :
        analysis = GeneratedText(mode) => mode = chartMode

\* The template and the prices and changes a display mode calls for.
TemplateOf(mode) == IF mode \in {"btc", "gold"} THEN mode ELSE "combined"
PricesOf(mode) ==
    CASE mode = "btc" -> <<btcData.price>>
      [] mode = "gold" -> <<goldData.price>>
      [] OTHER -> <<btcData.price, goldData.price>>
ChangesOf(mode) ==
    CASE mode = "btc" -> <<btcData.changePercent>>
      [] mode = "gold" -> <<goldData.changePercent>>
      [] OTHER -> <<btcData.changePercent, goldData.changePercent>>

\* C22: every commentary request carries the prompt of the template the
\* display mode selects (btc, gold, otherwise combined), with the current
\* price(s) and 24h change(s) in it and with range-percent figures of the
\* high/low buckets in it: at least one, none of them undefined, whatever
\* the high/low lists hold when the request is made.
C22_PromptEmbedsFigures ==
    [][aiCalls' = aiCalls + 1 =>
          LET p == aiCall'.prompt
          IN /\ p.template = TemplateOf(chartMode)
             /\ p.prices = PricesOf(chartMode)
             /\ p.changes = ChangesOf(chartMode)
             /\ p.ranges # << >>
             /\ \A i \in DOMAIN p.ranges : p.ranges[i].def]_vars

----------------------------------------------------------------------------
(* Properties of the refresh loop left running (under FairLive) *)

\* The timeframe the chart on display was fetched for.
ChartTf == IF lastUpdated = 0 THEN "none" ELSE cycles[lastUpdated].tf

====
